---------------------------- MODULE Spec2Model ----------------------------
(***************************************************************************)
(* Model of model/val.py: the mask post-processor post(), the metric       *)
(* calculator metrics(), and the threshold sweep of main().                *)
(*                                                                         *)
(* Arrays are flattened: an image, a label or a logit map is a function    *)
(* from Pixels to numbers.  Real numbers computed by metrics() are exact   *)
(* rationals over arbitrary-size naturals (BN.., R..), so that epsilon =   *)
(* 1e-7 keeps its value; a square root is kept as a marked radicand.       *)
(* Probabilities and logits of the threshold sampler are fixed-point       *)
(* numbers with Scale units per 1.0.                                       *)
(***************************************************************************)
EXTENDS Integers, Sequences, FiniteSets, TLC

(* ----------------------------- bounds -------------------------------- *)
\* Pixels per image (height * width, flattened).
NPix == 2
\* Calls of post() on one (logits, label) pair in the function harness.
MaxCalls == 2
\* Physical lines of the manifest file.
MaxLines == 3

(* ------------------------ program constants -------------------------- *)
number_of_thresholds == 20
\* epsilon = 1e-7 = 1 / EpsInv
EpsInv == 10000000

Pixels == 1..NPix

(* --------------------- arbitrary-size naturals ----------------------- *)
\* A natural is the little-endian sequence of its digits in base Base,
\* without high zero digits; <<>> is 0.
Base == 1000

RECURSIVE BNCarry(_, _)
BNCarry(s, c) ==
    IF s = <<>>
    THEN IF c = 0 THEN <<>> ELSE <<c % Base>> \o BNCarry(<<>>, c \div Base)
    ELSE LET t == Head(s) + c
         IN  <<t % Base>> \o BNCarry(Tail(s), t \div Base)

RECURSIVE BNStrip(_)
BNStrip(s) ==
    IF s = <<>> THEN <<>>
    ELSE IF s[Len(s)] = 0 THEN BNStrip(SubSeq(s, 1, Len(s) - 1))
    ELSE s

BNNorm(s) == BNStrip(BNCarry(s, 0))

BN(k) == BNNorm(<<k>>)

BNDigit(s, i) == IF i >= 1 /\ i <= Len(s) THEN s[i] ELSE 0

BNAdd(a, b) ==
    LET m == IF Len(a) >= Len(b) THEN Len(a) ELSE Len(b)
    IN  BNNorm([i \in 1..m |-> BNDigit(a, i) + BNDigit(b, i)])

RECURSIVE BNConv(_, _, _, _)
\* Sum over i in 1..j of a[i] * b[k + 1 - i]
BNConv(a, b, k, j) ==
    IF j = 0 THEN 0
    ELSE BNDigit(a, j) * BNDigit(b, k + 1 - j) + BNConv(a, b, k, j - 1)

BNMul(a, b) ==
    IF a = <<>> \/ b = <<>> THEN <<>>
    ELSE BNNorm([k \in 1..(Len(a) + Len(b) - 1) |-> BNConv(a, b, k, k)])

RECURSIVE BNLeqFrom(_, _, _)
\* a <= b for naturals of equal length, comparing digits i, i-1, ..., 1
BNLeqFrom(a, b, i) ==
    IF i = 0 THEN TRUE
    ELSE IF a[i] < b[i] THEN TRUE
    ELSE IF a[i] > b[i] THEN FALSE
    ELSE BNLeqFrom(a, b, i - 1)

BNLeq(a, b) ==
    IF Len(a) < Len(b) THEN TRUE
    ELSE IF Len(a) > Len(b) THEN FALSE
    ELSE BNLeqFrom(a, b, Len(a))

(* ----------------------------- reals --------------------------------- *)
\* A real is n/d (root = FALSE) or sqrt(n/d) (root = TRUE); d = 0 is the
\* non-finite result (inf or nan) of a floating-point division by zero.
RInt(k) == [n |-> BN(k), d |-> BN(1), root |-> FALSE]

RAdd(x, y) ==
    [n |-> BNAdd(BNMul(x.n, y.d), BNMul(y.n, x.d)),
     d |-> BNMul(x.d, y.d), root |-> FALSE]

RMul(x, y) == [n |-> BNMul(x.n, y.n), d |-> BNMul(x.d, y.d), root |-> FALSE]

\* x / y: numpy returns inf or nan (with a warning) when y is 0.
RDiv(x, y) == [n |-> BNMul(x.n, y.d), d |-> BNMul(x.d, y.n), root |-> FALSE]

RSqrt(x) == [n |-> x.n, d |-> x.d, root |-> TRUE]

RFinite(x) == x.d # <<>>

\* 0 <= x <= 1 (sqrt is monotone and fixes 0 and 1).
RInUnit(x) == RFinite(x) /\ BNLeq(x.n, x.d)

\* x = y as reals of the same kind.
REq(x, y) == /\ x.root = y.root
             /\ (x.d = <<>>) = (y.d = <<>>)
             /\ BNMul(x.n, y.d) = BNMul(y.n, x.d)

(* ------------------------------ post --------------------------------- *)
postSwapped(logits, label, threshold) ==
    LET masked == [p \in Pixels |-> IF label[p] = 0 THEN 0 ELSE 127]
    IN  [p \in Pixels |-> IF logits[p] >= threshold THEN 255 ELSE masked[p]]

postBelow(logits, label, threshold) ==
    LET ones == [p \in Pixels |-> 127]
        over == [p \in Pixels |-> IF logits[p] <= threshold THEN 255 ELSE ones[p]]
    IN  [p \in Pixels |-> IF label[p] = 0 THEN 0 ELSE over[p]]

post(logits, label, threshold) ==
    LET ones == [p \in Pixels |-> 127]
        over == [p \in Pixels |-> IF logits[p] >= threshold THEN 255 ELSE ones[p]]
    IN  [p \in Pixels |-> IF label[p] = 0 THEN 0 ELSE over[p]]

(* ----------------------------- metrics ------------------------------- *)
RECURSIVE npsum(_, _)
\* np.sum of a boolean mask over pixels 1..k
npsum(mask, k) ==
    IF k = 0 THEN 0 ELSE (IF mask[k] THEN 1 ELSE 0) + npsum(mask, k - 1)

true_positive_mask(segmentation, label) ==
    [p \in Pixels |-> segmentation[p] = 255 /\ label[p] = 255]
false_positive_mask(segmentation, label) ==
    [p \in Pixels |-> segmentation[p] = 255 /\ label[p] # 255]
true_negative_mask(segmentation, label) ==
    [p \in Pixels |-> segmentation[p] = 127 /\ label[p] = 127]
false_negative_maskLoose(segmentation, label) ==
    [p \in Pixels |-> segmentation[p] # 255 /\ label[p] # 127]
false_negative_mask(segmentation, label) ==
    [p \in Pixels |-> segmentation[p] = 127 /\ label[p] # 127]

confusion(segmentation, label) ==
    [tp |-> npsum(true_positive_mask(segmentation, label), NPix),
     fp |-> npsum(false_positive_mask(segmentation, label), NPix),
     tn |-> npsum(true_negative_mask(segmentation, label), NPix),
     fn |-> npsum(false_negative_mask(segmentation, label), NPix)]

epsilonZero == [n |-> <<>>, d |-> BN(1), root |-> FALSE]

epsilon == [n |-> BN(1), d |-> BN(EpsInv), root |-> FALSE]

metrics(segmentation, label) ==
    LET c == confusion(segmentation, label)
        accuracy == RDiv(RInt(c.tp + c.tn),
                         RAdd(RInt(c.tp + c.tn + c.fp + c.fn), epsilon))
        sensitivity == RDiv(RInt(c.tp), RAdd(RInt(c.tp + c.fn), epsilon))
        specificity == RDiv(RInt(c.tn), RAdd(RInt(c.fp + c.tn), epsilon))
        precision == RDiv(RInt(c.tp), RAdd(RInt(c.tp + c.fp), epsilon))
        recall == sensitivity
        iou == RDiv(RInt(c.tp), RAdd(RInt(c.tp + c.fp + c.fn), epsilon))
        f1 == RDiv(RMul(RMul(RInt(2), precision), recall),
                   RAdd(RAdd(precision, recall), epsilon))
        g_mean == RSqrt(RMul(sensitivity, specificity))
    IN  <<iou, f1, g_mean, accuracy, sensitivity, specificity, precision,
          recall>>

(* ------------------------------ state -------------------------------- *)
VARIABLES
    \* function harness: one (logits, label) pair and the calls made on it
    arg_logits, arg_label, ret_post, ret_metrics,
    \* main(): the manifest and the locals of the evaluation loop
    lines, pc, i, probs, thresholds, csv_reader, metric_accum, loss_accum,
    \* what main() has printed, in order
    stdout,
    \* history: the sampled line, the rows evaluated, the exceptions raised
    rand_index, evaluated, raised

fnvars == <<arg_logits, arg_label, ret_post, ret_metrics>>
mainvars == <<lines, pc, i, probs, thresholds, csv_reader, metric_accum,
              loss_accum, stdout, rand_index, evaluated, raised>>
vars == <<arg_logits, arg_label, ret_post, ret_metrics, lines, pc, i, probs,
          thresholds, csv_reader, metric_accum, loss_accum, stdout,
          rand_index, evaluated, raised>>

(* ------------------------- function harness -------------------------- *)
\* Values of the arrays handed to post() and metrics().  64 stands for a
\* label value outside {0, 127, 255}.
HarnessLogits == -1..1
HarnessThresholds == -1..1
HarnessLabels == {0, 64, 127, 255}
HarnessSegs == {0, 127, 255}

\* main() has not started and never does in the harness.
MainIdle ==
    /\ lines = <<>> /\ pc = "idle" /\ i = 0 /\ probs = <<>>
    /\ thresholds = <<>> /\ csv_reader = [pos |-> 1, line_num |-> 0]
    /\ metric_accum = <<>> /\ loss_accum = <<>> /\ stdout = <<>>
    /\ rand_index = -1 /\ evaluated = <<>> /\ raised = <<>>

FnInit ==
    /\ arg_logits \in [Pixels -> HarnessLogits]
    /\ arg_label \in [Pixels -> HarnessLabels]
    /\ ret_post = <<>>
    /\ ret_metrics = <<>>
    /\ MainIdle

CallPost ==
    /\ Len(ret_post) < MaxCalls
    /\ ret_metrics = <<>>
    /\ \E threshold \in HarnessThresholds :
         ret_post' = Append(ret_post,
                        [threshold |-> threshold,
                         thresholded |-> post(arg_logits, arg_label, threshold)])
    /\ UNCHANGED <<arg_logits, arg_label, ret_metrics>>
    /\ UNCHANGED mainvars

\* The locals of metrics() when it returns.
metricsCall(segmentation, label, viaPost) ==
    [segmentation |-> segmentation,
     label |-> label,
     viaPost |-> viaPost,
     masks |-> [tp |-> true_positive_mask(segmentation, label),
                fp |-> false_positive_mask(segmentation, label),
                tn |-> true_negative_mask(segmentation, label),
                fn |-> false_negative_mask(segmentation, label)],
     counts |-> confusion(segmentation, label),
     value |-> metrics(segmentation, label)]

\* metrics(post(logits, label, threshold), label), as main() calls it
CallMetrics ==
    /\ ret_post # <<>>
    /\ ret_metrics = <<>>
    /\ ret_metrics' = <<metricsCall(ret_post[Len(ret_post)].thresholded,
                                    arg_label, TRUE)>>
    /\ UNCHANGED <<arg_logits, arg_label, ret_post>>
    /\ UNCHANGED mainvars

\* metrics() on any segmentation
CallMetricsOn ==
    /\ ret_post = <<>>
    /\ ret_metrics = <<>>
    /\ \E segmentation \in [Pixels -> HarnessSegs] :
         ret_metrics' = <<metricsCall(segmentation, arg_label, FALSE)>>
    /\ UNCHANGED <<arg_logits, arg_label, ret_post>>
    /\ UNCHANGED mainvars

FnNext == CallPost \/ CallMetrics \/ CallMetricsOn

SpecFn == FnInit /\ [][FnNext]_vars


(* ----------------------- files and the network ----------------------- *)
\* Fixed-point resolution of probabilities and logits: units per 1.0
Scale == 1000

\* The validation set under data_dir: example e is the image file e and
\* its label file.  predict is prediction.eval on image e (deterministic),
\* labelOf is scipy.misc.imread on label e.
Dataset ==
    << [logits |-> [p \in Pixels |-> Scale * ((p % 3) - 1)],
        label  |-> [p \in Pixels |-> IF p % 2 = 1 THEN 255 ELSE 127]],
       [logits |-> [p \in Pixels |-> 0],
        label  |-> [p \in Pixels |-> 255]],
       [logits |-> [p \in Pixels |-> Scale * (1 - (p % 3))],
        label  |-> [p \in Pixels |-> IF p = 1 THEN 0 ELSE 127]] >>

Examples == 1..Len(Dataset)
predict(e) == Dataset[e].logits
labelOf(e) == Dataset[e].label

(* ----------------------------- manifest ------------------------------ *)
\* A physical line of val.csv, as f.read().splitlines() returns it:
\*   row   image,label             one record on one line
\*   head  "ima                    opens a quoted field: the record goes on
\*   tail  ge",label               closes the field opened by the line before
\* csv.reader continues a record whose quoted field is still open with the
\* next line and counts every line it reads in line_num.  ex is the example
\* whose files the completed record names; half a record parsed alone (as
\* the sampler parses rand_line) names no file.
Line == [kind : {"row", "head", "tail"}, ex : Examples]

WellFormed(ls) ==
    \A k \in 1..Len(ls) :
       /\ ls[k].kind = "head" =>
            k < Len(ls) /\ ls[k + 1].kind = "tail" /\ ls[k + 1].ex = ls[k].ex
       /\ ls[k].kind = "tail" => k > 1 /\ ls[k - 1].kind = "head"

Manifests ==
    UNION { {ls \in [1..n -> Line] : WellFormed(ls)} : n \in 0..MaxLines }

\* The first lines of the records of a manifest, in order.
RECURSIVE RecordStartsFrom(_, _)
RecordStartsFrom(ls, k) ==
    IF k > Len(ls) THEN <<>>
    ELSE <<k>> \o RecordStartsFrom(ls, IF ls[k].kind = "head" THEN k + 2 ELSE k + 1)

RecordStarts(ls) == RecordStartsFrom(ls, 1)

(* ---------------------------- csv.reader ----------------------------- *)
\* csv.reader(lines): pos is the next line of the iterator, line_num the
\* number of lines read from it.
HasNext(reader) == reader.pos <= Len(lines)

\* Lines the next record takes: a quoted field left open is continued by
\* the next line.
Span(reader) == IF lines[reader.pos].kind = "head" THEN 2 ELSE 1

NextRow(reader) == lines[reader.pos].ex

Advance(reader) ==
    [pos |-> reader.pos + Span(reader), line_num |-> reader.line_num + Span(reader)]

(* ------------------------- threshold sampler ------------------------- *)
\* 1000 / (1 + exp(-x)) at x = -4, -3, ..., 4
SigmoidKnots == <<18, 47, 119, 269, 500, 731, 881, 953, 982>>

\* 1 / (1 + np.exp(-x)) for a fixed-point logit x, interpolated between
\* the knots and saturating outside them.
sigmoid(x) ==
    IF x <= 0 - 4 * Scale THEN SigmoidKnots[1]
    ELSE IF x >= 4 * Scale THEN SigmoidKnots[9]
    ELSE LET k == ((x + 4 * Scale) \div Scale) + 1
             r == (x + 4 * Scale) % Scale
         IN  SigmoidKnots[k] + ((SigmoidKnots[k + 1] - SigmoidKnots[k]) * r) \div Scale

\* 1000 * ln(p / 1000) at p = 50, 100, ..., 950
LogKnots == <<-2996, -2303, -1897, -1609, -1386, -1204, -1050, -916, -799,
              -693, -598, -511, -431, -357, -288, -223, -163, -105, -51>>

\* np.log of a fixed-point probability, interpolated between the knots.
np_log(p) ==
    IF p <= 50 THEN LogKnots[1]
    ELSE IF p >= 950 THEN LogKnots[19]
    ELSE LET k == p \div 50
             r == p % 50
         IN  LogKnots[k] + ((LogKnots[k + 1] - LogKnots[k]) * r) \div 50

\* np.linspace(start, stop, num): start + j * step, the last sample is stop
linspace(start, stop, num) ==
    [j \in 1..num |->
        IF j = num THEN stop ELSE start + ((stop - start) * (j - 1)) \div (num - 1)]

RECURSIVE ArrMin(_, _)
ArrMin(a, k) ==
    IF k = 1 THEN a[1]
    ELSE LET m == ArrMin(a, k - 1) IN IF a[k] < m THEN a[k] ELSE m

RECURSIVE ArrMax(_, _)
ArrMax(a, k) ==
    IF k = 1 THEN a[1]
    ELSE LET m == ArrMax(a, k - 1) IN IF a[k] > m THEN a[k] ELSE m

min_prob(logits) == sigmoid(ArrMin(logits, NPix))
max_prob(logits) == sigmoid(ArrMax(logits, NPix))

probsOf(logits) == linspace(min_prob(logits), max_prob(logits), number_of_thresholds)

\* prob2logit
thresholdsOf(ps) == [j \in 1..Len(ps) |-> np_log(ps[j]) - np_log(Scale - ps[j])]

(* --------------------------- accumulators ---------------------------- *)
\* A float sum is kept as the list of its addends, in the order they were
\* added (np.zeros is the empty list), and a quotient of a sum by an integer
\* as the pair of the two; RSum and the Q operators give their values.
np_zeros == [c \in 1..8 |-> <<>>]

VecAdd(accum, m) == [c \in 1..8 |-> Append(accum[c], m[c])]

VecDivInt(accum, n) == [c \in 1..8 |-> [sum |-> accum[c], div |-> n]]

RECURSIVE RSum(_, _)
\* The exact sum of the rationals s[1..k].
RSum(s, k) == IF k = 0 THEN RInt(0) ELSE RAdd(RSum(s, k - 1), s[k])

AllZero(s) == \A j \in 1..Len(s) : s[j].n = <<>>

IsRoots(s) == \E j \in 1..Len(s) : s[j].root

\* q = r as reals, for quotients of sums of rationals or of sums of the
\* same square roots.
QEq(q, r) ==
    IF IsRoots(q.sum) \/ IsRoots(r.sum)
    THEN /\ q.sum = r.sum
         /\ (q.div = r.div \/ AllZero(q.sum))
    ELSE REq(RDiv(RSum(q.sum, Len(q.sum)), RInt(q.div)),
             RDiv(RSum(r.sum, Len(r.sum)), RInt(r.div)))

\* q = x as reals, for a real x and a quotient q of a sum of rationals or of
\* a sum of copies of one square root.
QEqR(q, x) ==
    IF x.root
    THEN /\ \A j \in 1..Len(q.sum) : q.sum[j].root /\ REq(q.sum[j], x)
         /\ (q.div = Len(q.sum) \/ x.n = <<>>)
    ELSE REq(RDiv(RSum(q.sum, Len(q.sum)), RInt(q.div)), x)

(* ------------------------------ main() ------------------------------- *)
\* The function harness is not used by main().
FnIdle ==
    /\ arg_logits = <<>> /\ arg_label = <<>>
    /\ ret_post = <<>> /\ ret_metrics = <<>>

\* After f.read().splitlines(), before the thresholds are sampled.
Init ==
    /\ lines \in Manifests
    /\ pc = "sample"
    /\ i = 0
    /\ probs = <<>>
    /\ thresholds = <<>>
    /\ csv_reader = [pos |-> 1, line_num |-> 0]
    /\ metric_accum = <<>>
    /\ loss_accum = <<>>
    /\ stdout = <<>>
    /\ rand_index = -1
    /\ evaluated = <<>>
    /\ raised = <<>>
    /\ FnIdle

\* Where the run was when an exception was raised.
Snapshot ==
    [at |-> pc, pass |-> i, start |-> csv_reader.pos, printed |-> Len(stdout),
     evaluated |-> Len(evaluated)]

SwallowAndContinue ==
    /\ raised' = <<Snapshot>>
    /\ pc' = pc

\* No try/except anywhere: an exception leaves the with block and main().
Propagate ==
    /\ raised' = <<Snapshot>>
    /\ pc' = "raised"

\* rand_index = np.random.randint(len(lines)) raises on an empty manifest.
SampleEmpty ==
    /\ pc = "sample"
    /\ Len(lines) = 0
    /\ Propagate
    /\ UNCHANGED <<lines, i, probs, thresholds, csv_reader, metric_accum,
                   loss_accum, stdout, rand_index, evaluated>>
    /\ UNCHANGED fnvars

\* csv.reader([rand_line]) parses the one line alone: half a record names
\* no file, and imread or prediction.eval may fail on a whole one.
SampleRaises ==
    /\ pc = "sample"
    /\ \E r \in 0..(Len(lines) - 1) : rand_index' = r
    /\ Propagate
    /\ UNCHANGED <<lines, i, probs, thresholds, csv_reader, metric_accum,
                   loss_accum, stdout, evaluated>>
    /\ UNCHANGED fnvars

SampleThresholds ==
    /\ pc = "sample"
    /\ \E r \in 0..(Len(lines) - 1) :
         /\ lines[r + 1].kind = "row"
         /\ rand_index' = r
         /\ LET logits == predict(lines[r + 1].ex)
            IN  /\ probs' = probsOf(logits)
                /\ thresholds' = thresholdsOf(probsOf(logits))
    /\ pc' = "for_i"
    /\ UNCHANGED <<lines, i, csv_reader, metric_accum, loss_accum, stdout,
                   evaluated, raised>>
    /\ UNCHANGED fnvars

ResetReaderStale == UNCHANGED csv_reader

\* csv_reader = csv.reader(lines)
ResetReader == csv_reader' = [pos |-> 1, line_num |-> 0]

ResetAccumStale ==
    metric_accum' = IF metric_accum = <<>> THEN np_zeros ELSE metric_accum

\* metric_accum = np.zeros(8)
ResetAccum == metric_accum' = np_zeros

\* for i in range(number_of_thresholds): the loop goes on ...
InSweep == i < number_of_thresholds

AfterAnyPass == i >= 1

\* ... and is left after the last threshold.
AfterSweep == i >= number_of_thresholds

StartPass ==
    /\ pc = "for_i"
    /\ InSweep
    /\ stdout' = Append(stdout, [kind |-> "threshold", i |-> i,
                                 threshold |-> thresholds[i + 1],
                                 prob |-> probs[i + 1]])
    /\ ResetReader
    /\ ResetAccum
    /\ pc' = "for_row"
    /\ UNCHANGED <<lines, i, probs, thresholds, loss_accum, rand_index,
                   evaluated, raised>>
    /\ UNCHANGED fnvars

EvalRowFirstThreshold(e) ==
    LET label == labelOf(e)
        logits == predict(e)
        segmentation == post(logits, label, thresholds[1])
    IN  /\ metric_accum' = VecAdd(metric_accum, metrics(segmentation, label))
        /\ evaluated' = Append(evaluated,
                          [phase |-> "sweep", pass |-> i, start |-> csv_reader.pos,
                           ex |-> e, threshold |-> thresholds[1],
                           printed |-> Len(stdout)])

\* The body of "for row in csv_reader" for the record naming example e.
EvalRowBody(e) ==
    LET label == labelOf(e)
        logits == predict(e)
        segmentation == post(logits, label, thresholds[i + 1])
    IN  /\ metric_accum' = VecAdd(metric_accum, metrics(segmentation, label))
        /\ evaluated' = Append(evaluated,
                          [phase |-> "sweep", pass |-> i, start |-> csv_reader.pos,
                           ex |-> e, threshold |-> thresholds[i + 1],
                           printed |-> Len(stdout)])

EvalRow ==
    /\ pc = "for_row"
    /\ HasNext(csv_reader)
    /\ csv_reader' = Advance(csv_reader)
    /\ EvalRowBody(NextRow(csv_reader))
    /\ UNCHANGED <<lines, pc, i, probs, thresholds, loss_accum, stdout,
                   rand_index, raised>>
    /\ UNCHANGED fnvars

\* imread of the image or the label, or prediction.eval, raises.
EvalRowRaises ==
    /\ pc = "for_row"
    /\ HasNext(csv_reader)
    /\ csv_reader' = Advance(csv_reader)
    /\ Propagate
    /\ UNCHANGED <<lines, i, probs, thresholds, metric_accum, loss_accum,
                   stdout, rand_index, evaluated>>
    /\ UNCHANGED fnvars

number_of_examples == csv_reader.line_num

ReportPass ==
    /\ pc = "for_row"
    /\ ~HasNext(csv_reader)
    /\ stdout' = Append(stdout,
                    [kind |-> "metrics", i |-> i,
                     mean_metrics |-> VecDivInt(metric_accum, number_of_examples)])
    /\ i' = i + 1
    /\ pc' = "for_i"
    /\ UNCHANGED <<lines, probs, thresholds, csv_reader, metric_accum,
                   loss_accum, rand_index, evaluated, raised>>
    /\ UNCHANGED fnvars

\* loss = model.logistic_loss(prediction, label); csv_reader = csv.reader(lines)
StartLoss ==
    /\ pc = "for_i"
    /\ AfterSweep
    /\ ResetReader
    /\ loss_accum' = <<>>
    /\ pc' = "loss_row"
    /\ UNCHANGED <<lines, i, probs, thresholds, metric_accum, stdout,
                   rand_index, evaluated, raised>>
    /\ UNCHANGED fnvars

\* loss_accum += loss.eval({image: im, label: lbl}); the loss is the
\* network's own, so the sum is kept as the list of the examples it adds.
LossRow ==
    /\ pc = "loss_row"
    /\ HasNext(csv_reader)
    /\ csv_reader' = Advance(csv_reader)
    /\ loss_accum' = Append(loss_accum, NextRow(csv_reader))
    /\ evaluated' = Append(evaluated,
                      [phase |-> "loss", pass |-> i, start |-> csv_reader.pos,
                       ex |-> NextRow(csv_reader), threshold |-> 0,
                       printed |-> Len(stdout)])
    /\ UNCHANGED <<lines, pc, i, probs, thresholds, metric_accum, stdout,
                   rand_index, raised>>
    /\ UNCHANGED fnvars

LossRowRaises ==
    /\ pc = "loss_row"
    /\ HasNext(csv_reader)
    /\ csv_reader' = Advance(csv_reader)
    /\ Propagate
    /\ UNCHANGED <<lines, i, probs, thresholds, metric_accum, loss_accum,
                   stdout, rand_index, evaluated>>
    /\ UNCHANGED fnvars

ReportLoss ==
    /\ pc = "loss_row"
    /\ ~HasNext(csv_reader)
    /\ stdout' = Append(stdout, [kind |-> "loss", sum |-> loss_accum,
                                 count |-> csv_reader.line_num])
    /\ pc' = "done"
    /\ UNCHANGED <<lines, i, probs, thresholds, csv_reader, metric_accum,
                   loss_accum, rand_index, evaluated, raised>>
    /\ UNCHANGED fnvars

Next ==
    \/ SampleEmpty
    \/ SampleRaises
    \/ SampleThresholds
    \/ StartPass
    \/ EvalRow
    \/ EvalRowRaises
    \/ ReportPass
    \/ StartLoss
    \/ LossRow
    \/ LossRowRaises
    \/ ReportLoss

Spec == Init /\ [][Next]_vars


(* ============================ properties ============================= *)

Count255(segmentation) == Cardinality({p \in Pixels : segmentation[p] = 255})

\* C1: post() returns 0 at every pixel whose label is 0, whatever the logit
\* and the threshold; at a pixel whose label is not 0 it returns 255 exactly
\* when the logit is at least the threshold and 127 otherwise; so every
\* value of the output is 0, 127 or 255.
C1_PostContract ==
    \A k \in 1..Len(ret_post) :
       \A p \in Pixels :
          LET out == ret_post[k].thresholded[p]
              over == arg_logits[p] >= ret_post[k].threshold
          IN  /\ out \in {0, 127, 255}
              /\ arg_label[p] = 0 => out = 0
              /\ arg_label[p] # 0 => /\ (out = 255 <=> over)
                                     /\ (~over => out = 127)

\* A call where a pixel over the threshold is masked by its label and
\* another one is set to 255.
C1_Witness ==
    \E k \in 1..Len(ret_post) : \E p, q \in Pixels :
       /\ arg_label[p] = 0
       /\ arg_logits[p] >= ret_post[k].threshold
       /\ ret_post[k].thresholded[p] = 0
       /\ arg_label[q] # 0
       /\ ret_post[k].thresholded[q] = 255

\* C2: every one of the 8 values metrics() returns is finite (no division
\* by zero) and lies in [0, 1], for a segmentation made by post() and for
\* any other one, all-background, all-foreground and all-zero labels included.
C2_MetricsInUnit ==
    \A k \in 1..Len(ret_metrics) :
       /\ Len(ret_metrics[k].value) = 8
       /\ \A j \in 1..8 : RInUnit(ret_metrics[k].value[j])

\* metrics() was called on a label that is entirely 0: all four counts are 0.
C2_Witness ==
    \E k \in 1..Len(ret_metrics) :
       /\ ret_metrics[k].viaPost
       /\ \A p \in Pixels : ret_metrics[k].label[p] = 0
       /\ ret_metrics[k].counts = [tp |-> 0, fp |-> 0, tn |-> 0, fn |-> 0]
       /\ Len(ret_metrics[k].value) = 8

\* C5: for the same logits and label, a call of post() with a threshold at
\* least as large sets at most as many pixels to 255.
C5_Monotone ==
    \A a, b \in 1..Len(ret_post) :
       ret_post[a].threshold <= ret_post[b].threshold
          => Count255(ret_post[b].thresholded) <= Count255(ret_post[a].thresholded)

\* Two calls, the second with a larger threshold and fewer pixels at 255.
C5_Witness ==
    \E a, b \in 1..Len(ret_post) :
       /\ ret_post[a].threshold < ret_post[b].threshold
       /\ Count255(ret_post[b].thresholded) < Count255(ret_post[a].thresholded)
       /\ Count255(ret_post[b].thresholded) > 0

\* The number of confusion masks of call m that hold pixel p.
TimesCounted(m, p) ==
    Cardinality({c \in {"tp", "fp", "tn", "fn"} : m.masks[c][p]})

\* C6: for a label over {0, 127, 255} and the segmentation post() makes of
\* it, a pixel whose label is 0 is in none of the four confusion counts and
\* any other pixel is in exactly one; the counts sum to the breast area.
C6_BreastAreaPartition ==
    \A k \in 1..Len(ret_metrics) :
       LET m == ret_metrics[k]
       IN  (m.viaPost /\ \A p \in Pixels : m.label[p] \in {0, 127, 255}) =>
             /\ \A p \in Pixels :
                   TimesCounted(m, p) = IF m.label[p] = 0 THEN 0 ELSE 1
             /\ m.counts.tp + m.counts.fp + m.counts.tn + m.counts.fn
                   = Cardinality({p \in Pixels : m.label[p] # 0})

\* A label with a background pixel and a mass pixel that post() left at 127.
C6_Witness ==
    \E k \in 1..Len(ret_metrics) :
       LET m == ret_metrics[k]
       IN  /\ m.viaPost
           /\ \A p \in Pixels : m.label[p] \in {0, 127, 255}
           /\ \E p, q \in Pixels :
                /\ m.label[p] = 0
                /\ m.label[q] = 255 /\ m.segmentation[q] = 127
           /\ m.counts.fn = 1

(* ------------------------- the evaluation loop ----------------------- *)
IsLossRow(e) == e.phase = "loss"

\* The rows evaluated in threshold pass k, in order.
PassRows(k) ==
    LET InPass(e) == e.phase = "sweep" /\ e.pass = k
    IN  SelectSeq(evaluated, InPass)

LossRows == SelectSeq(evaluated, IsLossRow)

Starts(rows) == [j \in 1..Len(rows) |-> rows[j].start]

\* The metric vector of an evaluated row.
RowMetrics(e) ==
    metrics(post(predict(e.ex), labelOf(e.ex), e.threshold), labelOf(e.ex))

MetricReports == {k \in 1..Len(stdout) : stdout[k].kind = "metrics"}

\* C3: once an exception is raised in a threshold pass the run is over:
\* the failing entry is not evaluated, nothing is evaluated after it, no
\* mean metrics are printed for that threshold, and no later threshold
\* pass and no loss pass starts.
C3_FailureAbandonsRun ==
    (raised # <<>> /\ raised[1].at = "for_row") =>
       LET s == raised[1]
       IN  /\ pc = "raised"
           /\ i = s.pass
           /\ Len(evaluated) = s.evaluated
           /\ Len(stdout) = s.printed
           /\ \A k \in 1..Len(evaluated) :
                 /\ evaluated[k].phase = "sweep"
                 /\ evaluated[k].pass <= s.pass
                 /\ evaluated[k].pass = s.pass => evaluated[k].start < s.start
           /\ \A k \in 1..Len(stdout) :
                 /\ stdout[k].kind # "loss"
                 /\ stdout[k].kind = "metrics" => stdout[k].i < s.pass
                 /\ stdout[k].kind = "threshold" => stdout[k].i <= s.pass

\* An exception in a later pass, at an entry that is not the last one.
C3_Witness ==
    /\ raised # <<>>
    /\ raised[1].at = "for_row"
    /\ raised[1].pass >= 1
    /\ raised[1].start < Len(lines)
    /\ pc = "raised"

\* The sampled example has one predicted probability only.
Degenerate ==
    /\ thresholds # <<>>
    /\ rand_index >= 0
    /\ LET logits == predict(lines[rand_index + 1].ex)
       IN  min_prob(logits) = max_prob(logits)

\* C4: when the minimum and the maximum predicted probability of the
\* sampled example are equal, all the thresholds are one value and the mean
\* metric vector printed is the same for every threshold of the sweep.
C4_DegenerateRange ==
    Degenerate =>
       /\ Len(thresholds) = number_of_thresholds
       /\ \A j, k \in 1..Len(thresholds) : thresholds[j] = thresholds[k]
       /\ \A a, b \in MetricReports :
             stdout[a].mean_metrics = stdout[b].mean_metrics

\* A run on a degenerate range that ended without an exception, with a
\* report for every threshold.
C4_Witness ==
    /\ Degenerate
    /\ pc = "done"
    /\ raised = <<>>
    /\ Cardinality(MetricReports) = number_of_thresholds

\* The last element of a non-empty sequence.
Last(seq) == seq[Len(seq)]

\* C7: in every pass the accumulator holds one vector per record evaluated
\* in this pass and nothing else (it starts at zero), and the reader goes
\* through the records of the manifest once, in order, from the first one;
\* so does the loss pass.  (The accumulator and stdout only grow within a
\* pass: each addend and each report is looked at in the state that adds it.)
C7_FreshPass ==
    /\ pc = "for_row" =>
          LET rows == PassRows(i)
          IN  /\ \A c \in 1..8 : Len(metric_accum[c]) = Len(rows)
              /\ rows # <<>> =>
                    [c \in 1..8 |-> Last(metric_accum[c])] = RowMetrics(Last(rows))
              /\ Starts(rows) = SubSeq(RecordStarts(lines), 1, Len(rows))
              /\ csv_reader.line_num = csv_reader.pos - 1
              /\ rows = <<>> => csv_reader.pos = 1 /\ metric_accum = np_zeros
    /\ (stdout # <<>> /\ Last(stdout).kind = "metrics") =>
          /\ Starts(PassRows(Last(stdout).i)) = RecordStarts(lines)
          /\ \A c \in 1..8 :
                Len(Last(stdout).mean_metrics[c].sum) = Len(RecordStarts(lines))
    /\ pc = "loss_row" =>
          /\ Starts(LossRows) = SubSeq(RecordStarts(lines), 1, Len(LossRows))
          /\ loss_accum = [j \in 1..Len(LossRows) |-> LossRows[j].ex]
    /\ pc = "done" => Starts(LossRows) = RecordStarts(lines)

\* A finished run over a manifest of several records.
C7_Witness ==
    /\ pc = "done"
    /\ Len(RecordStarts(lines)) >= 2
    /\ Cardinality(MetricReports) = number_of_thresholds
    /\ Len(LossRows) = Len(RecordStarts(lines))

RECURSIVE SumRows(_, _)
\* np.zeros(8) plus the metric vectors of rows 1..k
SumRows(rows, k) ==
    IF k = 0 THEN np_zeros
    ELSE VecAdd(SumRows(rows, k - 1), RowMetrics(rows[k]))

\* C8: the mean vector printed for a threshold is the sum of the vectors of
\* the entries evaluated in that pass divided by their number; when all of
\* them are one vector, the mean is that vector.  (stdout only grows: each
\* report is looked at in the state that prints it.)
C8_MeanOverEntries ==
    (stdout # <<>> /\ Last(stdout).kind = "metrics") =>
       LET rows == PassRows(Last(stdout).i)
           mean == Last(stdout).mean_metrics
       IN  /\ \A c \in 1..8 :
                 QEq(mean[c], VecDivInt(SumRows(rows, Len(rows)), Len(rows))[c])
           /\ (\A j \in 1..Len(rows) : RowMetrics(rows[j]) = RowMetrics(rows[1]))
                 => \A c \in 1..8 : QEqR(mean[c], RowMetrics(rows[1])[c])

NonDecreasing(seq) == \A j \in 1..(Len(seq) - 1) : seq[j] <= seq[j + 1]

C9_Thresholds ==
    /\ pc = "sample" => thresholds = <<>> /\ evaluated = <<>> /\ stdout = <<>>
    /\ thresholds # <<>> =>
          /\ Len(thresholds) = number_of_thresholds
          /\ NonDecreasing(thresholds)
          /\ rand_index \in 0..(Len(lines) - 1)
          /\ lines[rand_index + 1].kind = "row"
          /\ thresholds
               = thresholdsOf(probsOf(predict(lines[rand_index + 1].ex)))
          /\ \A k \in 1..Len(evaluated) :
                evaluated[k].phase = "sweep" =>
                   evaluated[k].threshold = thresholds[evaluated[k].pass + 1]

\* C9: the thresholds are derived once, from one record of the manifest,
\* before the first pass; there are number_of_thresholds of them, in
\* non-decreasing order; they never change afterwards, and pass i segments
\* every entry with thresholds[i].
C9_ThresholdsOnce ==
    /\ [](C9_Thresholds)
    /\ [][thresholds # <<>> => thresholds' = thresholds]_vars

\* A finished sweep whose thresholds are not all the same.
C9_Witness ==
    /\ pc = "done"
    /\ thresholds # <<>>
    /\ thresholds[1] < thresholds[number_of_thresholds]
    /\ Len(PassRows(number_of_thresholds - 1)) >= 1

\* C10: the reports of the thresholds are printed in increasing index
\* order, one per threshold; the loss pass runs once, over every record,
\* after the report of the last threshold; the loss report is printed last
\* and the run ends there.
C10_ReportOrder ==
    /\ Len(stdout) <= 2 * number_of_thresholds + 1
    /\ \A k \in 1..Len(stdout) :
          IF k <= 2 * number_of_thresholds
          THEN /\ stdout[k].kind = (IF k % 2 = 1 THEN "threshold" ELSE "metrics")
               /\ stdout[k].i = (k - 1) \div 2
          ELSE stdout[k].kind = "loss"
    /\ \A k \in 1..Len(evaluated) :
          evaluated[k].phase = "loss" =>
             evaluated[k].printed = 2 * number_of_thresholds
    /\ pc = "done" =>
          /\ raised = <<>>
          /\ Len(stdout) = 2 * number_of_thresholds + 1
          /\ Starts(LossRows) = RecordStarts(lines)
          /\ Last(stdout).count = csv_reader.line_num
          /\ ~ENABLED Next

\* The loss report of a run over several records has been printed.
C10_Witness ==
    /\ pc = "done"
    /\ Len(stdout) = 2 * number_of_thresholds + 1
    /\ stdout[Len(stdout)].kind = "loss"
    /\ Len(stdout[Len(stdout)].sum) >= 2

====
